---- MODULE Spec2Model ----
(***************************************************************************)
(* Polyphase rational resampler (src/src/Resampler.cpp, Resampler.h).      *)
(*                                                                         *)
(* Numbers.  TLC integers are 32 bit, the program computes in double.      *)
(* The model keeps every real quantity as a scaled integer:                *)
(*   - angles, sines and cosines in units of 1/TrigOne,                    *)
(*   - sinc in units of 1/SincOne,                                         *)
(*   - the window in units of 1/WinScale (its coefficients are exact),     *)
(*   - a filter coefficient in units of 1/CoefOne,                         *)
(*   - an accumulator in units of 1/CoefOne (coefficient * sample, the     *)
(*     samples being whole numbers).                                       *)
(* Rounding noise of the double arithmetic (relative 1e-16) is below this  *)
(* resolution and is not modelled.                                         *)
(***************************************************************************)
EXTENDS Integers, Sequences, FiniteSets, TLC

\* ------------------------------------------------------------------
\* Resolution of the scaled arithmetic
\* ------------------------------------------------------------------
TrigOne == 2 ^ 14
SincOne == 2 ^ 10
CoefOne == 2 ^ 13
WinScale == 10 ^ 5

\* M_PI in units of 1/TrigOne: round(pi * 2^14)
M_PI == 51472

\* double a[] = { 0.35875, 0.48829, 0.14128, 0.01168 }, at WinScale
A0 == 35875
A1 == 48829
A2 == 14128
A3 == 1168

DEFAULT_PATH_LEN == 128

\* ------------------------------------------------------------------
\* Helpers of the scaled arithmetic
\* ------------------------------------------------------------------
Abs(x) == IF x < 0 THEN -x ELSE x

\* C++ integer and double->integer conversions truncate towards zero
TruncDiv(x, d) == IF x < 0 THEN -((-x) \div d) ELSE x \div d

\* <<floor(a*b/c), (a*b) mod c>> for a, b >= 0, c > 0 without forming a*b
RECURSIVE MulDivQR(_, _, _)
MulDivQR(a, b, c) ==
    IF b = 0 THEN <<0, 0>>
    ELSE LET h == MulDivQR(a, b \div 2, c)
             t == 2 * h[2] + (b % 2) * a
         IN <<2 * h[1] + t \div c, t % c>>

MulDiv(a, b, c) == MulDivQR(a, b, c)[1]

\* product of two numbers in units of 1/TrigOne
MulT(x, y) == TruncDiv(x * y, TrigOne)

\* sin(theta), theta in [0, pi/2] in units of 1/TrigOne: the Taylor series to theta^11
SinSeries(theta) ==
    LET t2 == MulT(theta, theta)
        t3 == TruncDiv(MulT(theta, t2), 6)
        t5 == TruncDiv(MulT(t3, t2), 20)
        t7 == TruncDiv(MulT(t5, t2), 42)
        t9 == TruncDiv(MulT(t7, t2), 72)
        t11 == TruncDiv(MulT(t9, t2), 110)
    IN theta - t3 + t5 - t7 + t9 - t11

\* sin(pi * r / b) for 0 <= r < b
SinPiHalfTurn(r, b) ==
    LET m == IF 2 * r > b THEN b - r ELSE r
    IN IF 2 * m = b THEN TrigOne ELSE SinSeries(MulDiv(M_PI, m, b))

\* sin(pi * a / b), b > 0, any integer a: the argument is reduced exactly
SinPi(a, b) ==
    LET r == a % (2 * b)
    IN IF r >= b THEN -SinPiHalfTurn(r - b, b) ELSE SinPiHalfTurn(r, b)

\* cos(pi * a / b) = sin(pi * (2a + b) / 2b)
CosPi(a, b) == SinPi(2 * a + b, 2 * b)

\* ------------------------------------------------------------------
\* Resampler::init: prototype filter and its polyphase partitions
\* ------------------------------------------------------------------
\* the lambda sinc, called with x = (i - N/2.0) / cutoff = (2i - N) / (2 cutoff);
\* where pi*x is below the resolution, sin(pi x)/(pi x) is 1
sinc(i, N, cutoff) ==
    LET a == Abs(2 * i - N)
        b == 2 * cutoff
        pix == MulDiv(M_PI, a, b)
    IN IF a = 0 \/ pix = 0 THEN SincOne
       ELSE TruncDiv(SinPi(a, b) * SincOne, pix)

\* the Blackman-Harris window at index i of N, in units of 1/WinScale
Window(i, N) ==
    TruncDiv(A0 * TrigOne - A1 * CosPi(2 * i, N)
             + A2 * CosPi(4 * i, N) - A3 * CosPi(6 * i, N), TrigOne)

\* proto[i] before normalisation, 0 <= i < N, in units of 1/(SincOne*WinScale)
Proto(i, N, cutoff) == sinc(i, N, cutoff) * Window(i, N)

RECURSIVE ProtoSum(_, _, _)
ProtoSum(n, N, cutoff) ==
    IF n = 0 THEN 0 ELSE ProtoSum(n - 1, N, cutoff) + Proto(n - 1, N, cutoff)

\* proto[i] * beta with beta = partitions.size() / sum, in units of 1/CoefOne
Normalised(i, N, cutoff, nparts, sum) ==
    LET v == Proto(i, N, cutoff)
        m == IF sum = 0 THEN 0 ELSE MulDiv(Abs(v), nparts * CoefOne, Abs(sum))
    IN IF (v < 0) = (sum < 0) THEN m ELSE -m

\* the coefficients of a partition left in prototype order
Reverse_none(s) == s

\* std::reverse
Reverse(s) == [k \in 1..Len(s) |-> s[Len(s) + 1 - k]]

\* the partitions init leaves behind: partitions[p][j] = proto[j*P + p] * beta,
\* each partition then reversed (indices here are 1-based)
InitPartitions(Pv, taps, cutoff) ==
    LET N == Pv * taps
        sum == ProtoSum(N, N, cutoff)
    IN [p \in 1..Pv |->
          Reverse([j \in 1..taps |->
                     Normalised((j - 1) * Pv + (p - 1), N, cutoff, Pv, sum)])]

\* ------------------------------------------------------------------
\* Machine arithmetic: unsigned is 32 bit, kept as two 16-bit halves
\* <<hi, lo>> because 2^32 is beyond a TLC integer
\* ------------------------------------------------------------------
Half == 2 ^ 16

\* (unsigned) Qv * i modulo 2^32, for 0 <= Qv, i < 2^31
MulU32(Qv, i) ==
    LET qh == Qv \div Half
        ql == Qv % Half
        ih == i \div Half
        il == i % Half
        low == MulDivQR(ql, il, Half)
    IN <<(((qh * il) % Half) + ((ql * ih) % Half) + (low[1] % Half)) % Half, low[2]>>

\* quotient (two halves) and remainder of <<hi, lo>> by d, 0 < d < 2^15
DivModU32(u, d) ==
    LET t == (u[1] % d) * Half + u[2]
    IN [quot |-> <<u[1] \div d, t \div d>>, rem |-> t % d]

\* unsigned -> int: the value is reinterpreted in two's complement
ToInt(u) == IF u[1] >= Half \div 2 THEN (u[1] - Half) * Half + u[2]
            ELSE u[1] * Half + u[2]

\* Outcomes of undefined behaviour are fixed by the build:
\*   an integer division by zero traps (x86) or yields quotient 0 and the
\*   dividend as remainder (aarch64: udiv, then msub);
\*   a double beyond the range of the integer type converts to the type's
\*   minimum (x86 cvttsd2si as compiled at -O0) or to its maximum (aarch64
\*   fcvtzs; also x86 at -O2).
Builds == {"x86", "aarch64"}
DivZeroTraps(b) == b = "x86"

\* the signals a caller may feed in (Sig below)
Signals == {1, 2}

\* a table entry with its two members exchanged
PathEntry_swapped(i, Pv, Qv) ==
    LET prod == MulU32(Qv, i)
    IN IF Pv = 0 THEN <<ToInt(prod), 0>>
       ELSE LET dm == DivModU32(prod, Pv)
            IN <<dm.rem, ToInt(dm.quot)>>

\* one entry of the path table: pair<unsigned,unsigned>((Q*i)/P, (Q*i)%P)
\* stored into pair<int,int>
PathEntry(i, Pv, Qv) ==
    LET prod == MulU32(Qv, i)
    IN IF Pv = 0 THEN <<0, ToInt(prod)>>
       ELSE LET dm == DivModU32(prod, Pv)
            IN <<ToInt(dm.quot), dm.rem>>

\* Resampler::resize(n): the table is resized and every entry recomputed
resize(n, Pv, Qv) == [k \in 1..n |-> PathEntry(k - 1, Pv, Qv)]

\* ------------------------------------------------------------------
\* Element types.  "s8" is char, "s64" is long, "f64" is double.
\* A sample is the tuple of its components: <<v>> real, <<re, im>> complex.
\* An s8 or f64 component k is the number k.  An s64 component k is the
\* long k * 2^56; an s64 output o is the long o * 2^43 (the accumulator
\* unit for such inputs), except TypeMax, which is LONG_MAX = 2^63 - 1.
\* ------------------------------------------------------------------
ElemTypes == {"s8", "s64", "f64"}
Kinds == {"real", "complex"}
NComp(kind) == IF kind = "real" THEN 1 ELSE 2
Zero(kind) == [c \in 1..NComp(kind) |-> 0]

\* is_integral<T>::value
is_integral(T) == T \in {"s8", "s64"}

\* numeric_limits<T>::min() and max() as element values
TypeMin(T) == IF T = "s8" THEN -128 ELSE -128 * CoefOne
TypeMax(T) == IF T = "s8" THEN 127 ELSE 128 * CoefOne

\* (double) numeric_limits<T>::min(), in accumulator units: exact
DoubleOfMin(T) == -128 * CoefOne
\* (double) numeric_limits<T>::max(), in accumulator units: 127 for char;
\* 2^63 - 1 has 63 significant bits and rounds to 2^63 in a double
DoubleOfMax(T) == IF T = "s8" THEN 127 * CoefOne ELSE 128 * CoefOne

\* the SATURATE block: max(min, .) then min(max, .), integral types only
Saturate(T, a) ==
    IF is_integral(T)
    THEN LET lo == IF DoubleOfMin(T) > a THEN DoubleOfMin(T) ELSE a
         IN IF DoubleOfMax(T) < lo THEN DoubleOfMax(T) ELSE lo
    ELSE a

\* whether the double a, truncated, is a value of T
InRange(T, a) ==
    CASE T = "s8" -> TruncDiv(a, CoefOne) >= -128 /\ TruncDiv(a, CoefOne) <= 127
      [] T = "s64" -> a >= -128 * CoefOne /\ a < 128 * CoefOne
      [] OTHER -> TRUE

\* *oi = accum: double -> T.  Out of range is undefined behaviour.
Narrow(T, a, b) ==
    IF ~InRange(T, a) THEN (IF b = "x86" THEN TypeMin(T) ELSE TypeMax(T))
    ELSE IF T = "s8" THEN TruncDiv(a, CoefOne)
    ELSE a

\* ------------------------------------------------------------------
\* Bounds of the exploration
\* ------------------------------------------------------------------
\* P and Q range over 0..MaxPQ, and Q also takes BigQ; taps over 0..MaxTaps
MaxPQ == 3
MaxTaps == 4
\* for the element types and kinds other than real s8: P, Q in 1..TypeMaxPQ and
\* taps in 1..TypeMaxTaps
TypeMaxPQ == 2
TypeMaxTaps == 2
\* a short input block has at most MaxLen samples
MaxLen == 4
\* a long input block has LongLen samples (more than DEFAULT_PATH_LEN)
LongLen == 132
\* at most MaxCalls successful resample calls on one engine
MaxCalls == 2
\* a denominator whose products Q*i leave the int range inside the default table
BigQ == 2 ^ 26

\* ------------------------------------------------------------------
\* State
\* ------------------------------------------------------------------
VARIABLES
    state,       \* "Uninitialized", "Ready", "Failed" (the constructor threw),
                 \* "Crashed" (the process died)
    build,       \* how this build resolves undefined behaviour
    sig,         \* which signal the caller feeds in
    kind,        \* RealResampler or ComplexResampler
    etype,       \* the template argument T
    P, Q,        \* Resampler::P, Resampler::Q
    taps,        \* the constructor's argument taps
    partitions,  \* Resampler::partitions
    paths,       \* Resampler::paths
    history,     \* RealResampler::history / ComplexResampler::history
    histHuge,    \* history.size() is 2^32 - 1 (taps = 0), its content not kept
    last,        \* the last resample call: sizes, result, buffers
    stream,      \* every input sample accepted so far, in order
    outAll,      \* every output sample produced so far, in order
    calls,       \* number of successful resample calls
    cli          \* the command-line program's streaming loop (main.cpp)

engine == <<state, kind, etype, P, Q, taps, partitions, paths, history, histHuge>>
vars == <<state, build, sig, kind, etype, P, Q, taps, partitions, paths, history,
          histHuge, last, stream, outAll, calls, cli>>

NoCall == [result |-> "none", inLen |-> 0, outLen |-> 0, input |-> <<>>,
           output |-> <<>>, accum |-> <<>>]

\* the command-line program is not running
NoCli == [pc |-> "off"]

Init ==
    /\ state = "Uninitialized"
    /\ build \in Builds
    /\ sig \in Signals
    /\ kind = "real"
    /\ etype = "s8"
    /\ P = 0
    /\ Q = 0
    /\ taps = 0
    /\ partitions = <<>>
    /\ paths = <<>>
    /\ history = <<>>
    /\ histHuge = FALSE
    /\ last = NoCall
    /\ stream = <<>>
    /\ outAll = <<>>
    /\ calls = 0
    /\ cli = NoCli

\* ------------------------------------------------------------------
\* Construction
\* ------------------------------------------------------------------
Max(a, b) == IF a > b THEN a ELSE b

\* Resampler::Resampler, then the derived constructor's history(taps-1).
\* P = 0 divides by zero in resize; taps = 0 asks for 2^32 - 1 elements,
\* which the allocator grants or refuses (bad_alloc).
Construct(k, T, Pv, Qv, tv) ==
    /\ state = "Uninitialized"
    /\ UNCHANGED <<build, sig, last, stream, outAll, calls, cli>>
    /\ IF Pv = 0 /\ DivZeroTraps(build)
       THEN /\ state' = "Crashed"
            /\ UNCHANGED <<kind, etype, P, Q, taps, partitions, paths, history, histHuge>>
       ELSE \E granted \in BOOLEAN :
            IF tv = 0 /\ ~granted
            THEN /\ state' = "Failed"
                 /\ UNCHANGED <<kind, etype, P, Q, taps, partitions, paths, history, histHuge>>
            ELSE /\ state' = "Ready"
                 /\ kind' = k
                 /\ etype' = T
                 /\ P' = Pv
                 /\ Q' = Qv
                 /\ taps' = tv
                 /\ partitions' = InitPartitions(Pv, tv, Max(Pv, Qv))
                 /\ paths' = resize(DEFAULT_PATH_LEN, Pv, Qv)
                 /\ history' = [i \in 1..(tv - 1) |-> Zero(k)]
                 /\ histHuge' = (tv = 0)

\* ------------------------------------------------------------------
\* resample
\* ------------------------------------------------------------------
\* size_t % unsigned and size_t / unsigned where the division does not trap
SizeMod(n, d) == IF d = 0 THEN n ELSE n % d
SizeDiv(n, d) == IF d = 0 THEN 0 ELSE n \div d

\* the condition of COPY_INPUT's throw
SizesInvalid(inLen, outLen, histLen, huge, Pv, Qv) ==
    \/ SizeMod(inLen, Qv) # 0
    \/ SizeMod(outLen, Pv) # 0
    \/ SizeDiv(inLen, Qv) # SizeDiv(outLen, Pv)
    \/ huge
    \/ inLen < histLen

\* whether evaluating that condition, left to right with ||, divides by zero
\* on a build where that traps
SizesTrap(inLen, outLen, Pv, Qv, b) ==
    DivZeroTraps(b) /\ (Qv = 0 \/ (inLen % Qv = 0 /\ Pv = 0))

\* a copy that keeps the head of the input instead of its tail
TailOf_head(input, n) == SubSeq(input, 1, n)

\* history after the macro's last copy: the last history.size() input samples
TailOf(input, n) == SubSeq(input, Len(input) - n + 1, Len(input))

\* COPY_INPUT with the history copy moved before the size check
COPY_INPUT_early(hist, huge, pathsv, input, outLen, Pv, Qv, b) ==
    LET h2 == IF ~huge /\ Len(input) >= Len(hist) THEN TailOf(input, Len(hist)) ELSE hist
    IN IF SizesTrap(Len(input), outLen, Pv, Qv, b)
       THEN [outcome |-> "trap", paths |-> pathsv, x |-> <<>>, history |-> h2]
       ELSE IF SizesInvalid(Len(input), outLen, Len(hist), huge, Pv, Qv)
       THEN [outcome |-> "invalid_argument", paths |-> pathsv, x |-> <<>>,
             history |-> h2]
       ELSE [outcome |-> "ok",
             paths |-> IF outLen > Len(pathsv) THEN resize(outLen, Pv, Qv) ELSE pathsv,
             x |-> hist \o input,
             history |-> h2]

\* COPY_INPUT with the path table rebuilt to the output size on every call
COPY_INPUT_alwaysResize(hist, huge, pathsv, input, outLen, Pv, Qv, b) ==
    IF SizesTrap(Len(input), outLen, Pv, Qv, b)
    THEN [outcome |-> "trap", paths |-> pathsv, x |-> <<>>, history |-> hist]
    ELSE IF SizesInvalid(Len(input), outLen, Len(hist), huge, Pv, Qv)
    THEN [outcome |-> "invalid_argument", paths |-> pathsv, x |-> <<>>, history |-> hist]
    ELSE [outcome |-> "ok",
          paths |-> resize(outLen, Pv, Qv),
          x |-> hist \o input,
          history |-> TailOf(input, Len(hist))]

\* the macro COPY_INPUT: outcome, then the path table, the extended buffer x
\* and the history it leaves
COPY_INPUT(hist, huge, pathsv, input, outLen, Pv, Qv, b) ==
    IF SizesTrap(Len(input), outLen, Pv, Qv, b)
    THEN [outcome |-> "trap", paths |-> pathsv, x |-> <<>>, history |-> hist]
    ELSE IF SizesInvalid(Len(input), outLen, Len(hist), huge, Pv, Qv)
    THEN [outcome |-> "invalid_argument", paths |-> pathsv, x |-> <<>>,
          history |-> hist]
    ELSE [outcome |-> "ok",
          paths |-> IF outLen > Len(pathsv) THEN resize(outLen, Pv, Qv) ELSE pathsv,
          x |-> hist \o input,
          history |-> TailOf(input, Len(hist))]

\* (double) *xii: exact for every sample of the model (a char; a long that
\* is a multiple of 2^56; a double)
ToDouble(T, v) == v

\* sum over the first n taps of h[j] * x[xi + j] for component c
RECURSIVE Dot(_, _, _, _, _, _)
Dot(T, h, x, xi, c, n) ==
    IF n = 0 THEN 0
    ELSE Dot(T, h, x, xi, c, n - 1) + h[n] * ToDouble(T, x[xi + n][c])

\* the accumulator of output index i (0-based): partition and window start
\* come from the path entry
Accum(T, k, parts, pathsv, x, i) ==
    LET pe == pathsv[i + 1]
        h == parts[pe[2] + 1]
    IN [c \in 1..NComp(k) |-> Dot(T, h, x, pe[1], c, Len(h))]

\* every read of the loop stays inside partitions and x
ReadsInBounds(parts, pathsv, xLen, outLen) ==
    \A i \in 1..outLen :
        /\ pathsv[i][2] >= 0
        /\ pathsv[i][2] < Len(parts)
        /\ pathsv[i][1] >= 0
        /\ pathsv[i][1] + Len(parts[pathsv[i][2] + 1]) <= xLen

\* what the loop writes to output index i
OutputOf(T, acc, b) == [c \in DOMAIN acc |-> Narrow(T, Saturate(T, acc[c]), b)]

\* the body shared by RealResampler<T>::resample and
\* ComplexResampler<T>::resample
ResampleBody(input, outLen) ==
    \E r \in {COPY_INPUT(history, histHuge, paths, input, outLen, P, Q, build)} :
       /\ UNCHANGED <<build, sig, kind, etype, P, Q, taps, partitions, histHuge, cli>>
       /\ paths' = r.paths
       /\ history' = r.history
       /\ CASE r.outcome = "trap" ->
                 /\ state' = "Crashed"
                 /\ last' = [NoCall EXCEPT !.result = "trap", !.inLen = Len(input),
                                           !.outLen = outLen]
                 /\ UNCHANGED <<stream, outAll, calls>>
            [] r.outcome = "invalid_argument" ->
                 /\ state' = state
                 /\ last' = [NoCall EXCEPT !.result = "invalid_argument",
                                           !.inLen = Len(input), !.outLen = outLen]
                 /\ UNCHANGED <<stream, outAll, calls>>
            [] r.outcome = "ok" /\ ~ReadsInBounds(partitions, r.paths, Len(r.x), outLen) ->
                 /\ state' = "Crashed"
                 /\ last' = [NoCall EXCEPT !.result = "out_of_bounds",
                                           !.inLen = Len(input), !.outLen = outLen]
                 /\ UNCHANGED <<stream, outAll, calls>>
            [] OTHER ->
                 \E acc \in {[i \in 1..outLen |->
                                Accum(etype, kind, partitions, r.paths, r.x, i - 1)]} :
                 \E out \in {[i \in 1..outLen |-> OutputOf(etype, acc[i], build)]} :
                 /\ state' = state
                 /\ last' = [result |-> "ok", inLen |-> Len(input), outLen |-> outLen,
                             input |-> input, output |-> out, accum |-> acc]
                 /\ stream' = stream \o input
                 /\ outAll' = outAll \o out
                 /\ calls' = calls + 1

\* ------------------------------------------------------------------
\* The calls explored
\* ------------------------------------------------------------------
\* The caller's signal: sample t (1-based) of the stream it feeds in.
\* Signal 1 takes a different value at neighbouring positions; signal 2
\* sits at the extremes of the element type.
Sig(s, t, k) ==
    LET ramp(u) == ((u * 37) % 256) - 128
        full(u) == IF u % 3 = 0 THEN -128 ELSE 127
    IN IF k = "real"
       THEN (IF s = 1 THEN <<ramp(t)>> ELSE <<full(t)>>)
       ELSE (IF s = 1 THEN <<ramp(t), ramp(t + 3)>> ELSE <<full(t), -1 - full(t)>>)

\* the next n samples of the signal
Block(s, k, n) == [i \in 1..n |-> Sig(s, Len(stream) + i, k)]

Lens == (0..MaxLen) \cup {LongLen}

\* the output sizes tried with an input of n samples: the one the contract
\* asks for, and n + 1
OutLens(n) == {SizeDiv(n, Q) * P, n + 1}

Configs ==
    {c \in [kind : Kinds, type : ElemTypes, P : 0..MaxPQ, Q : (0..MaxPQ) \cup {BigQ},
            taps : 0..MaxTaps] :
        \/ c.kind = "real" /\ c.type = "s8"
        \/ /\ c.P \in 1..TypeMaxPQ /\ c.Q \in 1..TypeMaxPQ /\ c.taps \in 1..TypeMaxTaps}

\* undefined behaviour is met only by a zero P or Q and by the s64 narrowing:
\* the other configurations are explored under one build
BuildsOf(c) == IF c.P = 0 \/ c.Q = 0 \/ c.type = "s64" THEN Builds ELSE {"x86"}

ConstructAny ==
    \E c \in Configs :
        /\ build \in BuildsOf(c)
        /\ Construct(c.kind, c.type, c.P, c.Q, c.taps)

RealResample ==
    /\ state = "Ready"
    /\ kind = "real"
    /\ calls < MaxCalls
    /\ \E n \in Lens : \E outLen \in OutLens(n) :
           ResampleBody(Block(sig, "real", n), outLen)

ComplexResample ==
    /\ state = "Ready"
    /\ kind = "complex"
    /\ calls < MaxCalls
    /\ \E n \in Lens : \E outLen \in OutLens(n) :
           ResampleBody(Block(sig, "complex", n), outLen)

Next == ConstructAny \/ RealResample \/ ComplexResample

Spec == Init /\ [][Next]_vars

\* ------------------------------------------------------------------
\* Properties
\* ------------------------------------------------------------------
\* an engine built from positive P, Q and taps
Valid == state = "Ready" /\ P > 0 /\ Q > 0 /\ taps > 0

\* the preconditions of resample as the contract states them
PreViolated(inLen, outLen) ==
    \/ inLen % Q # 0
    \/ outLen % P # 0
    \/ inLen \div Q # outLen \div P
    \/ inLen < taps - 1

\* C1: on an engine with positive P and Q, a resample call whose sizes
\* violate a precondition fails with invalid_argument and changes nothing:
\* history, path table, partitions and the stream position are what they
\* were, so a following call behaves as if the failed call had not been made.
C1_FailedCallChangesNothing ==
    [][(state = "Ready" /\ P > 0 /\ Q > 0
          /\ PreViolated(last'.inLen, last'.outLen))
        => /\ last'.result = "invalid_argument"
           /\ UNCHANGED <<engine, stream, outAll, calls>>]_vars

\* a failed call (input not a multiple of Q) made after a successful one on
\* an engine that keeps history
C1_Witness ==
    /\ Valid
    /\ taps >= 2
    /\ calls = 1
    /\ last.result = "invalid_argument"
    /\ last.inLen % Q # 0
    /\ last.inLen >= taps - 1

\* C2: block invariance: the outputs of the successive calls made so far,
\* concatenated, are the output of a single call over the concatenated
\* inputs on a freshly constructed engine with the same P, Q and taps.
C2_BlockInvariance ==
    (Valid /\ calls >= 1) =>
        \E parts \in {InitPartitions(P, taps, Max(P, Q))} :
        \E r \in {COPY_INPUT([i \in 1..(taps - 1) |-> Zero(kind)], FALSE,
                             resize(DEFAULT_PATH_LEN, P, Q), stream,
                             (Len(stream) \div Q) * P, P, Q, build)} :
            /\ r.outcome = "ok"
            /\ outAll = [i \in 1..((Len(stream) \div Q) * P) |->
                           OutputOf(etype,
                                    Accum(etype, kind, parts, r.paths, r.x, i - 1),
                                    build)]

\* two non-empty blocks on an engine that changes the rate and keeps history
C2_Witness ==
    /\ Valid
    /\ calls = 2
    /\ P = 3 /\ Q = 2 /\ taps = 3
    /\ last.result = "ok"
    /\ last.inLen > 0
    /\ Len(stream) > last.inLen

\* C3: the history buffer has taps-1 samples (2^32 - 1 of them when taps is
\* 0, the unsigned taps-1), is all zeros until the first successful call,
\* and afterwards is the last taps-1 samples of the last accepted input.
C3_History ==
    state = "Ready" =>
        /\ histHuge = (taps = 0)
        /\ taps > 0 => Len(history) = taps - 1
        /\ calls = 0 => \A i \in 1..Len(history) : history[i] = Zero(kind)
        /\ (taps > 0 /\ last.result = "ok") =>
              \A i \in 1..(taps - 1) :
                  history[i] = last.input[last.inLen - (taps - 1) + i]
        /\ (taps > 0 /\ calls >= 1) =>
              \A i \in 1..(taps - 1) :
                  history[i] = stream[Len(stream) - (taps - 1) + i]

\* a successful call whose input is longer than the history
C3_Witness ==
    /\ Valid
    /\ taps >= 3
    /\ last.result = "ok"
    /\ last.inLen > taps - 1
    /\ history # [i \in 1..(taps - 1) |-> Zero(kind)]

\* C4: for every positive P and Q, entry i of the path table is
\* (floor(Q*i / P), (Q*i) mod P) as resize computes it, its partition index
\* lies in [0, P), and its input offset is non-negative and non-decreasing
\* in i.
C4_PathTable ==
    (state = "Ready" /\ P > 0 /\ Q > 0) =>
        \A i \in 1..Len(paths) :
            /\ paths[i] = PathEntry(i - 1, P, Q)
            /\ paths[i][2] >= 0 /\ paths[i][2] < P
            /\ paths[i][1] >= 0
            /\ i > 1 => paths[i][1] >= paths[i - 1][1]

\* the accumulator clamped to the range of the element type and converted
TypeClamp(T, a) ==
    CASE T = "s8" ->
            IF a < -128 * CoefOne THEN -128
            ELSE IF a > 127 * CoefOne THEN 127
            ELSE TruncDiv(a, CoefOne)
      [] T = "s64" ->
            IF a < -128 * CoefOne THEN TypeMin(T)
            ELSE IF a >= 128 * CoefOne THEN TypeMax(T)
            ELSE a
      [] OTHER -> a

\* C5: for every integer element type each output component is the
\* accumulator clamped to the type's range before conversion; floating-point
\* element types are written unclamped.
C5_Saturation ==
    (Valid /\ last.result = "ok") =>
        \A i \in 1..last.outLen : \A c \in 1..NComp(kind) :
            last.output[i][c] = TypeClamp(etype, last.accum[i][c])

\* sample t of the stream, zero before the stream starts
Delayed(t) == IF t <= 0 THEN Zero(kind) ELSE stream[t]

\* an input sample in the unit outputs of the element type are kept in
InputAsOutput(T, v) == IF T = "s8" THEN v ELSE v * CoefOne

\* C6 as stated: when P equals Q every output index i uses partition 0 at
\* input offset i, and after taps-1 samples of latency the output sequence
\* equals the input sequence.
C6_Identity ==
    (Valid /\ P = Q /\ calls >= 1) =>
        /\ \A i \in 1..Len(paths) : paths[i] = <<i - 1, 0>>
        /\ \A t \in 1..Len(stream) :
              t + taps - 1 <= Len(outAll) =>
                 \A c \in 1..NComp(kind) :
                    outAll[t + taps - 1][c] = InputAsOutput(etype, stream[t][c])

\* C6 amended: when P equals Q every output index i uses partition 0 at
\* input offset i; for even taps partition 0 has one non-zero coefficient,
\* at reversed tap index taps/2 - 1, so the accumulator of output i is that
\* coefficient times input sample i - taps/2 (zero before the stream): a
\* latency of taps/2 samples and a gain equal to the coefficient.
C6_DelayedScaled ==
    (Valid /\ P = Q /\ last.result = "ok") =>
        /\ \A i \in 1..Len(paths) : paths[i] = <<i - 1, 0>>
        /\ taps % 2 = 0 =>
             /\ \A j \in 1..taps : j # taps \div 2 => partitions[1][j] = 0
             /\ partitions[1][taps \div 2] > 0
             /\ \A i \in 1..last.outLen : \A c \in 1..NComp(kind) :
                   last.accum[i][c] =
                      partitions[1][taps \div 2]
                        * Delayed(Len(stream) - last.inLen + i - taps \div 2)[c]

\* equal rates above one, four taps, a block longer than the latency
C6_Witness ==
    /\ Valid
    /\ P = Q /\ P >= 2
    /\ taps = 4
    /\ last.result = "ok"
    /\ last.inLen >= 4
    /\ calls = 2
    /\ \E i \in 1..last.outLen : last.accum[i][1] # 0

\* C7: construction fails when P, Q or taps is zero, so a constructed
\* engine has all three positive.
C7_ConstructionRejectsZero ==
    state = "Ready" => (P > 0 /\ Q > 0 /\ taps > 0)

\* C8: the path table has DEFAULT_PATH_LEN entries after construction and
\* only grows: a successful call asking for more outputs than it has entries
\* extends it to exactly that many, any other call leaves its length alone,
\* and entries already present keep their values.
C8_CapacityGrowOnly ==
    [][/\ (state = "Uninitialized" /\ state' = "Ready")
            => Len(paths') = DEFAULT_PATH_LEN
       /\ state = "Ready" =>
            /\ Len(paths') >= Len(paths)
            /\ Len(paths') = IF last'.result = "ok" /\ last'.outLen > Len(paths)
                             THEN last'.outLen
                             ELSE Len(paths)
            /\ \A i \in 1..Len(paths) : paths'[i] = paths[i]]_vars

\* a table grown by a long call and then used by a shorter one
C8_Witness ==
    /\ Valid
    /\ calls = 2
    /\ Len(paths) > DEFAULT_PATH_LEN
    /\ last.result = "ok"
    /\ last.outLen > 0
    /\ last.outLen < Len(paths)

\* sample m of the stream with P-1 zeros inserted after every sample, zero
\* outside the stream
ZeroStuffed(m, c) ==
    IF m >= 0 /\ m % P = 0 /\ m \div P < Len(stream) THEN stream[m \div P + 1][c] ELSE 0

RECURSIVE FullRate(_, _, _, _)
\* sum over k < n of h[k] * u[m - k], h the normalised prototype in its own
\* order and u the zero-stuffed stream
FullRate(h, m, c, n) ==
    IF n = 0 THEN 0
    ELSE FullRate(h, m, c, n - 1) + h[n] * ZeroStuffed(m - (n - 1), c)

\* C10: polyphase equivalence: the accumulator of output i (counted over the
\* whole stream) is sample Q*i of the convolution of the zero-stuffed stream
\* with the normalised prototype of P*taps coefficients.
C10_PolyphaseEquivalence ==
    (Valid /\ last.result = "ok") =>
        \E sum \in {ProtoSum(P * taps, P * taps, Max(P, Q))} :
        \E h \in {[k \in 1..(P * taps) |->
                     Normalised(k - 1, P * taps, Max(P, Q), P, sum)]} :
            \A i \in 1..last.outLen : \A c \in 1..NComp(kind) :
                last.accum[i][c] =
                    FullRate(h, Q * (Len(outAll) - last.outLen + i - 1), c, P * taps)

\* a second block on an engine that changes the rate with several taps
C10_Witness ==
    /\ Valid
    /\ P >= 2 /\ Q >= 2 /\ P # Q
    /\ taps >= 3
    /\ calls = 2
    /\ last.result = "ok"
    /\ last.outLen >= 2
    /\ \E i \in 1..last.outLen : last.accum[i][1] # 0

\* ------------------------------------------------------------------
\* Calls too long to keep as sequences: an input of g whole Q-groups has
\* g * Q samples and asks for g * P outputs, so it passes the size check of
\* COPY_INPUT whenever it is at least as long as the history.
\* ------------------------------------------------------------------
\* the longest such call considered, in Q-groups
MaxGroups == 33

\* the path table the loop walks after COPY_INPUT's
\* "if (output.size() > paths.size()) resize(output.size())"
PathsFor(outLen) == IF outLen > Len(paths) THEN resize(outLen, P, Q) ELSE paths

\* every read of the loop for an input of g Q-groups stays inside the path
\* table, partitions and the extended buffer x of taps - 1 + g * Q samples:
\* inputOffset + taps <= taps - 1 + g * Q is inputOffset < g * Q, that is
\* inputOffset \div Q < g
GroupReadsInBounds(pathsv, g) ==
    \A i \in 1..(g * P) :
        /\ i <= Len(pathsv)
        /\ pathsv[i][2] >= 0
        /\ pathsv[i][2] < Len(partitions)
        /\ Len(partitions[pathsv[i][2] + 1]) = taps
        /\ pathsv[i][1] >= 0
        /\ pathsv[i][1] \div Q < g

\* C11: once the preconditions of resample pass, every output index has a
\* path entry, its partition exists, and its window of taps samples lies
\* inside the extended buffer, so no read is out of bounds: stated for every
\* call of g whole Q-groups (|input| = g*Q >= taps-1, |output| = g*P) on a
\* constructed engine with positive P, Q and taps, and for every call made.
C11_NoReadOutOfBounds ==
    /\ last.result # "out_of_bounds"
    /\ Valid =>
          \A g \in 1..MaxGroups :
              (g >= taps - 1 \/ g * Q >= taps - 1) =>
                  GroupReadsInBounds(PathsFor(g * P), g)

\* ------------------------------------------------------------------
\* The command-line program (main.cpp): its streaming loop.  Only sizes
\* are carried: the file is the number of bytes left in it, and a call of
\* resample is its size check (the throw condition of COPY_INPUT) on a
\* resampler constructed with the default tap count.
\* ------------------------------------------------------------------
BLOCKSIZE == 4096

\* the defaults of the taps argument in Resampler.h
ComplexDefaultTaps == 384
RealDefaultTaps == 128

\* sample_type_map: the sample types and sizeof of their elements
CliTypes == {"fc64", "fc32", "sc64", "sc32", "sc16", "sc8",
             "f64", "f32", "s64", "s32", "s16", "s8"}
CliKind(t) == IF t \in {"fc64", "fc32", "sc64", "sc32", "sc16", "sc8"}
              THEN "complex" ELSE "real"
CliTypeSize(t) ==
    CASE t \in {"fc64", "sc64"} -> 16
      [] t \in {"fc32", "sc32", "f64", "s64"} -> 8
      [] t \in {"sc16", "f32", "s32"} -> 4
      [] t \in {"sc8", "s16"} -> 2
      [] OTHER -> 1

\* the taps of the resampler the RUN_*_RESAMPLER macros construct
CliTaps(t) == IF CliKind(t) = "complex" THEN ComplexDefaultTaps ELSE RealDefaultTaps

\* -p and -q range over 1..MaxCliPQ, and -q also takes LargeQ, whose
\* Q-group is longer than BLOCKSIZE for every sample type
MaxCliPQ == 3
LargeQ == 2 ^ 13
\* file lengths in bytes: c quarter blocks plus e bytes
MaxChunks == 9
MaxExtra == 20
FileLens == {c * (BLOCKSIZE \div 4) + e : c \in 0..MaxChunks, e \in 0..MaxExtra}

\* main after handle_options accepted the arguments and both files opened
CliInit ==
    /\ state = "Uninitialized"
    /\ build = "x86"
    /\ sig = 1
    /\ kind = "real"
    /\ etype = "s8"
    /\ P = 0
    /\ Q = 0
    /\ taps = 0
    /\ partitions = <<>>
    /\ paths = <<>>
    /\ history = <<>>
    /\ histHuge = FALSE
    /\ last = NoCall
    /\ stream = <<>>
    /\ outAll = <<>>
    /\ calls = 0
    /\ cli \in [pc : {"start"}, type : CliTypes, p : 1..MaxCliPQ,
                q : (1..MaxCliPQ) \cup {LargeQ}, left : FileLens,
                eof : {FALSE}, n_blks : {0}, inSize : {0}, outSize : {0},
                n_wr : {0}, called : {FALSE}, lastIn : {0}, lastOut : {0}]

\* int blk_sz = type_sz * args.q
CliBlkSz(c) == CliTypeSize(c.type) * c.q

\* main.cpp:147-149 and the RUN_*_RESAMPLER macro: block geometry, the
\* resampler with default taps, and the input and output vectors
CliStart ==
    /\ cli.pc = "start"
    /\ LET n == IF CliBlkSz(cli) > BLOCKSIZE THEN 1 ELSE BLOCKSIZE \div CliBlkSz(cli)
       IN cli' = [cli EXCEPT !.pc = "loop", !.n_blks = n,
                             !.inSize = n * cli.q, !.outSize = n * cli.p]
    /\ UNCHANGED <<state, build, sig, kind, etype, P, Q, taps, partitions, paths,
                   history, histHuge, last, stream, outAll, calls>>

\* one pass of while (!istr.eof()): read, shrink the vectors after a short
\* read or break, resample, write.  An exception of resample leaves the
\* lambda and is caught by the macro, which prints it.
CliBlock ==
    /\ cli.pc = "loop"
    /\ LET want == cli.inSize * CliTypeSize(cli.type)
           n_rd == IF want > cli.left THEN cli.left ELSE want
           short == n_rd # cli.n_blks * CliBlkSz(cli)
           nb == IF short THEN n_rd \div CliBlkSz(cli) ELSE cli.n_blks
           inS == IF short THEN nb * cli.q ELSE cli.inSize
           outS == IF short THEN nb * cli.p ELSE cli.outSize
           atEof == want > cli.left
           read == [cli EXCEPT !.left = cli.left - n_rd, !.eof = atEof]
       IN IF short /\ n_rd < CliBlkSz(cli)
          THEN cli' = [read EXCEPT !.pc = "done"]
          ELSE LET sized == [read EXCEPT !.n_blks = nb, !.inSize = inS, !.outSize = outS,
                                         !.called = TRUE, !.lastIn = inS, !.lastOut = outS]
               IN IF SizesInvalid(inS, outS, CliTaps(cli.type) - 1, FALSE, cli.p, cli.q)
                  THEN cli' = [sized EXCEPT !.pc = "threw"]
                  ELSE cli' = [sized EXCEPT !.n_wr = cli.n_wr + outS,
                                            !.pc = IF atEof THEN "done" ELSE "loop"]
    /\ UNCHANGED <<state, build, sig, kind, etype, P, Q, taps, partitions, paths,
                   history, histHuge, last, stream, outAll, calls>>

CliNext == CliStart \/ CliBlock

CliSpec == CliInit /\ [][CliNext]_vars

\* C12: in the streaming loop, for every sample type with its default tap
\* count, every positive P and Q and every file length, each block handed to
\* resample satisfies |input| % Q = 0, |output| = |input| * P / Q and
\* |input| >= taps - 1, so resample never throws in the loop.
C12_LoopPreconditions ==
    (cli.pc # "off" /\ cli.called) =>
        /\ cli.lastIn % cli.q = 0
        /\ cli.lastOut = (cli.lastIn \div cli.q) * cli.p
        /\ cli.lastIn >= CliTaps(cli.type) - 1
        /\ cli.pc # "threw"

====
